---- MODULE Spec2Model ----
(***************************************************************************)
(* The 8-puzzle search core of src/src/utils.py: the Board functions, the  *)
(* BoardNode tree, the seven search strategies and Board.solve.            *)
(*                                                                         *)
(* A state is a tuple of 9 cells; Python index i is TLA+ index i + 1.      *)
(* A tree node is a record kept in the sequence `tree'; a node is named by *)
(* its position in that sequence (its object identity), 0 stands for None. *)
(***************************************************************************)
EXTENDS Integers, Sequences, FiniteSets, TLC

(***************************************************************************)
(* Bounds of the model.                                                    *)
(***************************************************************************)
\* start states of the search runs: every state within MaxScramble moves of the goal
MaxScramble == 4
\* cap on DFS's max_depth, which the code lets grow without bound
MaxLimit == 10
\* start states of the DFS runs that are followed for termination
DFSScramble == 2
\* depth of the reference breadth-first layering that gives true distances
RefDepth == 12
\* random.shuffle is drawn from the rearrangements of the first ShuffleLen cells
ShuffleLen == 5
\* transform is applied to every state within MoveDepth moves of the goal
MoveDepth == 5
\* the presentation layer: boards within UIScramble moves of the goal
UIScramble == 1
\* the presentation layer: how many solver threads are started at most
MaxThreads == 2

(***************************************************************************)
(* Python helpers.                                                         *)
(***************************************************************************)
Abs(x) == IF x < 0 THEN 0 - x ELSE x

\* list.index(v) / tuple.index(v): the first 0-based position holding v
index(seq, v) == CHOOSE i \in 0..(Len(seq) - 1) :
                    /\ seq[i + 1] = v
                    /\ \A j \in 0..(i - 1) : seq[j + 1] # v

\* a subscript i on a sequence of length n: negative subscripts count from
\* the end, anything outside -n..n-1 raises IndexError (-1 here)
PyIndex(i, n) == IF i >= 0 /\ i < n THEN i
                 ELSE IF i < 0 /\ i >= 0 - n THEN i + n
                 ELSE -1

Reverse(seq) == [i \in 1..Len(seq) |-> seq[Len(seq) + 1 - i]]

(***************************************************************************)
(* class Board                                                             *)
(***************************************************************************)
goal == <<0, 1, 2, 3, 4, 5, 6, 7, 8>>

translate_to_2D(i) == <<i \div 3, i % 3>>

manhattan_distance(x1, y1, x2, y2) == Abs(x1 - x2) + Abs(y1 - y2)

\* a variant whose test for 'U' is off by one
valid_actions_off_by_one(state) ==
    LET blank_index == index(state, 0)
    IN  (IF blank_index > 1 THEN <<"U">> ELSE <<>>)
        \o (IF blank_index < 6 THEN <<"D">> ELSE <<>>)
        \o (IF blank_index % 3 > 0 THEN <<"L">> ELSE <<>>)
        \o (IF blank_index % 3 < 2 THEN <<"R">> ELSE <<>>)

\* the generator's yields, in order
valid_actions(state) ==
    LET blank_index == index(state, 0)
    IN  (IF blank_index > 2 THEN <<"U">> ELSE <<>>)
        \o (IF blank_index < 6 THEN <<"D">> ELSE <<>>)
        \o (IF blank_index % 3 > 0 THEN <<"L">> ELSE <<>>)
        \o (IF blank_index % 3 < 2 THEN <<"R">> ELSE <<>>)

ValidSet(state) == {valid_actions(state)[k] : k \in 1..Len(valid_actions(state))}

\* a variant whose 'L' branch repeats the subscript of the 'R' branch
Target_copy_paste(blank_index, action) ==
    CASE action = "U" -> blank_index - 3
      [] action = "D" -> blank_index + 3
      [] action = "L" -> blank_index + 1
      [] action = "R" -> blank_index + 1
      [] OTHER -> blank_index

\* the cell a move exchanges the blank with, as the code computes the subscript
Target(blank_index, action) ==
    CASE action = "U" -> blank_index - 3
      [] action = "D" -> blank_index + 3
      [] action = "L" -> blank_index - 1
      [] action = "R" -> blank_index + 1
      [] OTHER -> blank_index

\* Board.transform: [raised |-> "none", state |-> the new tuple], or the
\* exception the subscripting raises.  No branch checks the move: an
\* unknown action falls through every elif and returns the state unchanged.
transform(state, action) ==
    LET blank_index == index(state, 0)
        other == PyIndex(Target(blank_index, action), Len(state))
    IN  IF action \notin {"U", "D", "L", "R"}
        THEN [raised |-> "none", state |-> state]
        ELSE IF other = -1
        THEN [raised |-> "IndexError", state |-> <<>>]
        ELSE [raised |-> "none",
              state |-> [state EXCEPT ![blank_index + 1] = state[other + 1],
                                      ![other + 1] = state[blank_index + 1]]]

RECURSIVE InversionsFrom(_, _, _)
InversionsFrom(state, i, j) ==
    IF i > 8 THEN 0
    ELSE IF j > 8 THEN InversionsFrom(state, i + 1, i + 2)
    ELSE (IF state[i + 1] # 0 /\ state[j + 1] # 0 /\ state[i + 1] > state[j + 1]
          THEN 1 ELSE 0)
         + InversionsFrom(state, i, j + 1)

\* a variant that also counts the pairs holding the blank
RECURSIVE InversionsBlankFrom(_, _, _)
InversionsBlankFrom(state, i, j) ==
    IF i > 8 THEN 0
    ELSE IF j > 8 THEN InversionsBlankFrom(state, i + 1, i + 2)
    ELSE (IF state[i + 1] > state[j + 1] THEN 1 ELSE 0)
         + InversionsBlankFrom(state, i, j + 1)

inversions_blank(state) == InversionsBlankFrom(state, 0, 1)

inversions(state) == InversionsFrom(state, 0, 1)

\* a variant that takes the parity of the count with the blank's pairs
is_solvable_blank(state) == inversions_blank(state) % 2 = 0

is_solvable(state) == inversions(state) % 2 = 0

(***************************************************************************)
(* class Node / class BoardNode                                            *)
(***************************************************************************)
BoardNode(state, action, parent, depth) ==
    [state |-> state, action |-> action, parent |-> parent,
     depth |-> depth, nodes |-> <<>>]

RECURSIVE HeuristicFrom(_, _)
HeuristicFrom(state, i) ==
    IF i >= Len(state) THEN 0
    ELSE LET cur == translate_to_2D(i)
             gl  == translate_to_2D(index(goal, state[i + 1]))
         IN  manhattan_distance(cur[1], cur[2], gl[1], gl[2])
             + HeuristicFrom(state, i + 1)

\* BoardNode.cost: the Manhattan sum over every cell of the state, the blank
\* included, plus the node's depth
cost(n) == HeuristicFrom(n.state, 0) + n.depth

is_goal(n) == n.state = goal

\* BoardNode.__lt__ and __eq__ of the nodes t[a], t[b]
NodeLt(t, a, b) == cost(t[a]) < cost(t[b])
NodeEq(t, a, b) == cost(t[a]) = cost(t[b])

\* a variant that gives the children the depth of their parent
expand_same_depth(t, n) ==
    IF t[n].nodes # <<>> THEN t
    ELSE LET acts == valid_actions(t[n].state)
             kids == [k \in 1..Len(acts) |->
                        BoardNode(transform(t[n].state, acts[k]).state,
                                  acts[k], n, t[n].depth)]
         IN  [(t \o kids) EXCEPT ![n].nodes = [k \in 1..Len(acts) |-> Len(t) + k]]

\* a variant without the test `if not self.nodes'
expand_always(t, n) ==
    LET acts == valid_actions(t[n].state)
        kids == [k \in 1..Len(acts) |->
                   BoardNode(transform(t[n].state, acts[k]).state,
                             acts[k], n, t[n].depth + 1)]
    IN  [(t \o kids) EXCEPT ![n].nodes = @ \o [k \in 1..Len(acts) |-> Len(t) + k]]

\* BoardNode.expand on node n of tree t: the tree afterwards
expand(t, n) ==
    IF t[n].nodes # <<>> THEN t
    ELSE LET acts == valid_actions(t[n].state)
             kids == [k \in 1..Len(acts) |->
                        BoardNode(transform(t[n].state, acts[k]).state,
                                  acts[k], n, t[n].depth + 1)]
         IN  [(t \o kids) EXCEPT ![n].nodes = [k \in 1..Len(acts) |-> Len(t) + k]]

\* Node.iterate_ancestors: the node, its parent, ... up to the root
RECURSIVE iterate_ancestors(_, _)
iterate_ancestors(t, n) ==
    IF n = 0 THEN <<>> ELSE <<n>> \o iterate_ancestors(t, t[n].parent)

\* a variant that forgets to reverse the collected actions
actions_unreversed(t, n) ==
    LET anc == iterate_ancestors(t, n)
    IN  [k \in 1..(Len(anc) - 1) |-> t[anc[k]].action]

\* BoardNode.actions: tuple(...)[-2::-1], the root's None dropped, reversed
actions(t, n) ==
    LET anc == iterate_ancestors(t, n)
    IN  Reverse([k \in 1..(Len(anc) - 1) |-> t[anc[k]].action])

(***************************************************************************)
(* heapq and deque, as the strategies use them.  A heap is the list heapq  *)
(* keeps; position p of the list is index p + 1.  Items are node names, or *)
(* (cost, node) pairs in BEAM_SEARCH (kind = "pair").                       *)
(***************************************************************************)
\* item a < item b.  Tuples compare by their first differing component;
\* two pairs of equal cost hold nodes that are __eq__, so neither is less.
ItemLt(t, kind, a, b) ==
    IF kind = "pair"
    THEN IF a[1] # b[1] THEN a[1] < b[1]
         ELSE IF ~NodeEq(t, a[2], b[2]) THEN NodeLt(t, a[2], b[2])
         ELSE FALSE
    ELSE NodeLt(t, a, b)

\* heapq._siftdown(heap, startpos, pos) with newitem lifted out
RECURSIVE SiftDown(_, _, _, _, _, _)
SiftDown(t, kind, heap, startpos, pos, newitem) ==
    IF pos > startpos
    THEN LET parentpos == (pos - 1) \div 2
             parent == heap[parentpos + 1]
         IN  IF ItemLt(t, kind, newitem, parent)
             THEN SiftDown(t, kind, [heap EXCEPT ![pos + 1] = parent],
                           startpos, parentpos, newitem)
             ELSE [heap EXCEPT ![pos + 1] = newitem]
    ELSE [heap EXCEPT ![pos + 1] = newitem]

\* heapq._siftup(heap, pos): bubble the smaller child up to a leaf, then
\* sift newitem down from there
RECURSIVE SiftUp(_, _, _, _, _, _)
SiftUp(t, kind, heap, startpos, pos, newitem) ==
    LET endpos == Len(heap)
        childpos == 2 * pos + 1
    IN  IF childpos < endpos
        THEN LET rightpos == childpos + 1
                 c == IF rightpos < endpos
                         /\ ~ItemLt(t, kind, heap[childpos + 1], heap[rightpos + 1])
                      THEN rightpos ELSE childpos
             IN  SiftUp(t, kind, [heap EXCEPT ![pos + 1] = heap[c + 1]],
                        startpos, c, newitem)
        ELSE SiftDown(t, kind, [heap EXCEPT ![pos + 1] = newitem],
                      startpos, pos, newitem)

\* heapq.heappush(heap, item): the heap afterwards
heappush(t, kind, heap, item) ==
    SiftDown(t, kind, Append(heap, item), 0, Len(heap), item)

\* heapq.heappop(heap): the item returned and the heap afterwards
heappop(t, kind, heap) ==
    LET lastelt == heap[Len(heap)]
        rest == SubSeq(heap, 1, Len(heap) - 1)
    IN  IF rest # <<>>
        THEN [item |-> heap[1], rest |-> SiftUp(t, kind, rest, 0, 0, lastelt)]
        ELSE [item |-> lastelt, rest |-> rest]

\* the key Greedy sorts a node's children by: the Manhattan distance of the
\* blank's cell from the blank's goal cell
blank_key(n) ==
    LET cur == translate_to_2D(index(n.state, 0))
        gl  == translate_to_2D(index(goal, 0))
    IN  manhattan_distance(cur[1], cur[2], gl[1], gl[2])

\* the comparison a sort makes: by = "lt" is list.sort() on nodes (__lt__),
\* by = "blank" is list.sort(key=...) with Greedy's key
SortLt(t, by, a, b) ==
    IF by = "blank" THEN blank_key(t[a]) < blank_key(t[b]) ELSE NodeLt(t, a, b)

\* list.sort is stable: an item is placed after every item it is not less than
RECURSIVE InsertSorted(_, _, _, _)
InsertSorted(t, by, sorted, x) ==
    IF sorted = <<>> THEN <<x>>
    ELSE IF SortLt(t, by, x, sorted[Len(sorted)])
         THEN Append(InsertSorted(t, by, SubSeq(sorted, 1, Len(sorted) - 1), x),
                     sorted[Len(sorted)])
         ELSE Append(sorted, x)

RECURSIVE sort(_, _, _)
sort(t, by, seq) ==
    IF seq = <<>> THEN <<>>
    ELSE InsertSorted(t, by, sort(t, by, SubSeq(seq, 1, Len(seq) - 1)), seq[Len(seq)])

\* deque.pop() and deque.popleft(): the item taken and the deque afterwards
pop(dq) == [item |-> dq[Len(dq)], rest |-> SubSeq(dq, 1, Len(dq) - 1)]

\* a variant that takes the newest item instead of the oldest
popleft_newest(dq) == [item |-> dq[Len(dq)], rest |-> SubSeq(dq, 1, Len(dq) - 1)]

popleft(dq) == [item |-> dq[1], rest |-> Tail(dq)]

(***************************************************************************)
(* The program state.                                                      *)
(***************************************************************************)
VARIABLES
    pc,                \* where the call of Board.solve stands
    func,              \* the strategy handed to Board.solve
    start_state,       \* the state handed to Board.solve
    tree,              \* the BoardNode objects created so far
    frontier,          \* the strategy's frontier
    explored,          \* explored_nodes / explored
    nodes_expanded,    \* the strategy's counter
    max_search_depth,  \* the strategy's running maximum
    max_depth,         \* DFS: the current depth limit
    node,              \* the node dequeued last (0 before the first pop)
    ret,               \* what the strategy returned
    result,            \* what Board.solve returned or raised
    expand_calls,      \* observed: calls of BoardNode.expand since the strategy
                       \* (for DFS: the current limited_DFS call) was entered
    inserted_depth,    \* observed: depth of the deepest node put on the frontier
                       \* since then
    gen_pc,            \* create_solvable_state: where the call stands
    gen_state,         \* create_solvable_state: the list being shuffled
    mv_pc,             \* transform: where the call stands
    mv_state,          \* transform: the state argument
    mv_action,         \* transform: the action argument
    mv_result,         \* transform: the value returned or the exception
    walk_from,         \* a sequence of legal moves: the state it started from
    walk_state,        \* a sequence of legal moves: the state reached so far
    is_stopped,        \* PuzzlePage.is_stopped
    is_solving,        \* PuzzlePage.is_solving
    is_done,           \* PuzzlePage.is_done
    current_board_state, \* PuzzlePage.current_board_state
    saved_board_state, \* PuzzlePage.saved_board_state
    ui_pc,             \* the UI thread: the statement it is at ("idle": in the event loop)
    ui_handler,        \* the UI thread: the handler that called reset_board
    thread_pc,         \* each solver thread: the statement of run_solution it is at
    thread_path,       \* each solver thread: what is left of its path_to_goal
    new_state,         \* each solver thread: new_state of its call of transform_state
    cancelled          \* observed: reset_board completed while the thread was active

searchVars == <<pc, func, start_state, tree, frontier, explored, nodes_expanded,
                max_search_depth, max_depth, node, ret, result,
                expand_calls, inserted_depth>>
genVars == <<gen_pc, gen_state>>
mvVars == <<mv_pc, mv_state, mv_action, mv_result>>
walkVars == <<walk_from, walk_state>>
pageVars == <<is_stopped, is_solving, is_done, current_board_state, saved_board_state>>
uiVars == <<pageVars, ui_pc, ui_handler, thread_pc, thread_path, new_state, cancelled>>
vars == <<searchVars, genVars, mvVars, walkVars, uiVars>>

Strategies == {"A_STAR", "BFS", "DFS", "UCS", "Greedy", "BEAM_SEARCH", "Hill_Climbing"}

(***************************************************************************)
(* The states around the goal, by their true distance from it: Layers[k+1] *)
(* holds the states exactly k legal moves away (moves are reversible, so   *)
(* this is also the length of a shortest path from the state to the goal). *)
(***************************************************************************)
Successors(s) == {transform(s, valid_actions(s)[k]).state : k \in 1..Len(valid_actions(s))}

RECURSIVE BuildLayers(_)
BuildLayers(ls) ==
    IF Len(ls) > RefDepth THEN ls
    ELSE LET last == ls[Len(ls)]
             prev == IF Len(ls) > 1 THEN ls[Len(ls) - 1] ELSE {}
         IN  BuildLayers(Append(ls, (UNION {Successors(s) : s \in last}) \ (last \cup prev)))

Layers == BuildLayers(<<{goal}>>)

Within(d) == UNION {Layers[k + 1] : k \in 0..d}

Dist(s) == CHOOSE k \in 0..RefDepth : s \in Layers[k + 1]

IsPermutation(s) == Len(s) = 9 /\ \A v \in 0..8 : \E i \in 1..9 : s[i] = v

\* the inversion count as a count of pairs, independent of the code's loops
InversionPairs(s) == {p \in (1..9) \X (1..9) :
                        p[1] < p[2] /\ s[p[1]] # 0 /\ s[p[2]] # 0 /\ s[p[1]] > s[p[2]]}

Solvable(s) == IsPermutation(s) /\ Cardinality(InversionPairs(s)) % 2 = 0

(***************************************************************************)
(* Inputs of Board.solve.                                                  *)
(***************************************************************************)
\* every state within MaxScramble moves of the goal, with every strategy
Near == Within(MaxScramble)

\* 9-cell tuples with one blank and eight equal tiles: only 9 states are
\* reachable from them and the goal is not among these, so a strategy runs
\* its frontier empty after at most 9 expansions (an odd permutation does
\* the same after 181440)
Exhaustible == {<<0, 1, 1, 1, 1, 1, 1, 1, 1>>, <<1, 1, 1, 1, 0, 1, 1, 1, 1>>}

\* solvable states 7 to 12 moves from the goal, each with one strategy
Far == {<<<<7, 3, 2, 1, 5, 0, 4, 6, 8>>, "A_STAR">>,
        <<<<3, 1, 5, 6, 2, 7, 0, 8, 4>>, "UCS">>,
        <<<<3, 1, 5, 6, 2, 7, 0, 8, 4>>, "Hill_Climbing">>,
        <<<<1, 2, 0, 3, 6, 8, 7, 5, 4>>, "Greedy">>,
        <<<<3, 2, 5, 6, 0, 1, 7, 4, 8>>, "BEAM_SEARCH">>,
        <<<<3, 5, 1, 4, 2, 0, 6, 7, 8>>, "DFS">>,
        <<<<3, 2, 5, 0, 6, 1, 7, 4, 8>>, "DFS">>}

\* a permutation with an odd inversion count (tiles 1 and 2 exchanged): the
\* goal cannot be reached from it
OddStart == <<0, 2, 1, 3, 4, 5, 6, 7, 8>>

Inputs == ((Near \cup Exhaustible) \X Strategies) \cup Far

\* start states of the DFS runs followed to their end or to the cap on the
\* limit: the states within DFSScramble moves of the goal and an unsolvable
\* permutation
DFSInputs == (Within(DFSScramble) \cup {OddStart}) \X {"DFS"}

NoRet == [shape |-> "pending", node |-> 0, nodes_expanded |-> 0, max_search_depth |-> 0]
NoResult == [raised |-> "pending", path_to_goal |-> <<>>, nodes_expanded |-> 0,
             max_search_depth |-> 0]

\* a strategy's `return node, a, b' and its bare `return None'
Tuple3(n, a, b) == [shape |-> "tuple", node |-> n, nodes_expanded |-> a,
                    max_search_depth |-> b]
BareNone == [shape |-> "None", node |-> 0, nodes_expanded |-> 0, max_search_depth |-> 0]

SearchIdle ==
    /\ pc = "idle" /\ func = "none" /\ start_state = <<>> /\ tree = <<>>
    /\ frontier = <<>> /\ explored = {} /\ nodes_expanded = 0
    /\ max_search_depth = 0 /\ max_depth = 0 /\ node = 0
    /\ ret = NoRet /\ result = NoResult
    /\ expand_calls = 0 /\ inserted_depth = 0
GenIdle == gen_pc = "idle" /\ gen_state = <<>>
MvIdle == mv_pc = "idle" /\ mv_state = <<>> /\ mv_action = "none"
          /\ mv_result = [raised |-> "pending", state |-> <<>>]
WalkIdle == walk_from = <<>> /\ walk_state = <<>>
UIIdle ==
    /\ is_stopped = FALSE /\ is_solving = FALSE /\ is_done = FALSE
    /\ current_board_state = <<>> /\ saved_board_state = <<>>
    /\ ui_pc = "none" /\ ui_handler = "none"
    /\ thread_pc = <<>> /\ thread_path = <<>> /\ new_state = <<>> /\ cancelled = <<>>

(***************************************************************************)
(* Board.solve, first half: the root node is built and the strategy is     *)
(* entered; the strategy's locals are initialised and the root is put on   *)
(* its frontier.                                                           *)
(***************************************************************************)
solve_call ==
    /\ pc = "call"
    /\ tree' = <<BoardNode(start_state, "None", 0, 0)>>
    /\ frontier' = CASE func = "DFS" -> <<<<1, 0>>>>
                     [] func = "BEAM_SEARCH" ->
                            heappush(tree', "pair", <<>>, <<cost(tree'[1]), 1>>)
                     [] func = "BFS" -> <<1>>
                     [] OTHER -> heappush(tree', "node", <<>>, 1)
    /\ explored' = {}
    /\ nodes_expanded' = 0
    /\ max_search_depth' = 0
    /\ max_depth' = IF func = "DFS" THEN 1 ELSE 0
    /\ expand_calls' = 0
    /\ inserted_depth' = tree'[1].depth
    /\ pc' = "search"
    /\ UNCHANGED <<func, start_state, node, ret, result, genVars, mvVars, walkVars, uiVars>>

\* observation of a loop iteration that called expand on the dequeued node:
\* one more call, and the frontier grew beyond what the pop left (f1) only
\* by children of that node, all of depth d
Observe(f1, d) ==
    /\ expand_calls' = expand_calls + 1
    /\ inserted_depth' = IF Len(frontier') > Len(f1) /\ d > inserted_depth
                         THEN d ELSE inserted_depth

\* the shared tail of a loop iteration that dequeued the goal
ReturnGoal(n, f, e, a, b) ==
    /\ ret' = Tuple3(n, a, b)
    /\ pc' = "returned"
    /\ frontier' = f
    /\ explored' = e
    /\ node' = n
    /\ UNCHANGED <<tree, nodes_expanded, max_search_depth, max_depth,
                   expand_calls, inserted_depth>>

\* the strategy falls out of `while frontier:'
ReturnEmpty(r) ==
    /\ ret' = r
    /\ pc' = "returned"
    /\ UNCHANGED <<tree, frontier, explored, nodes_expanded, max_search_depth,
                   max_depth, node, expand_calls, inserted_depth>>

(***************************************************************************)
(* A_STAR: one evaluation of `while frontier:' and the body it guards.     *)
(***************************************************************************)
\* a variant that marks a state explored only when it is dequeued
RECURSIVE AStarNeighbors_unmarked(_, _, _, _)
AStarNeighbors_unmarked(t, nbrs, i, acc) ==
    IF i > Len(nbrs) THEN acc
    ELSE LET neighbor == nbrs[i]
         IN  IF t[neighbor].state \notin acc.explored
             THEN AStarNeighbors_unmarked(t, nbrs, i + 1,
                    [frontier |-> heappush(t, "node", acc.frontier, neighbor),
                     explored |-> acc.explored,
                     msd |-> IF t[neighbor].depth > acc.msd
                             THEN t[neighbor].depth ELSE acc.msd])
             ELSE AStarNeighbors_unmarked(t, nbrs, i + 1, acc)

RECURSIVE AStarNeighbors(_, _, _, _)
AStarNeighbors(t, nbrs, i, acc) ==
    IF i > Len(nbrs) THEN acc
    ELSE LET neighbor == nbrs[i]
         IN  IF t[neighbor].state \notin acc.explored
             THEN AStarNeighbors(t, nbrs, i + 1,
                    [frontier |-> heappush(t, "node", acc.frontier, neighbor),
                     explored |-> acc.explored \cup {t[neighbor].state},
                     msd |-> IF t[neighbor].depth > acc.msd
                             THEN t[neighbor].depth ELSE acc.msd])
             ELSE AStarNeighbors(t, nbrs, i + 1, acc)

A_STAR ==
    /\ pc = "search" /\ func = "A_STAR"
    /\ IF frontier # <<>>
       THEN LET n == heappop(tree, "node", frontier).item
                f1 == heappop(tree, "node", frontier).rest
                e1 == explored \cup {tree[n].state}
            IN  IF is_goal(tree[n])
                THEN ReturnGoal(n, f1, e1, nodes_expanded, max_search_depth)
                ELSE LET t1 == expand(tree, n)
                         acc == AStarNeighbors(t1, t1[n].nodes, 1,
                                  [frontier |-> f1, explored |-> e1,
                                   msd |-> max_search_depth])
                     IN  /\ tree' = t1
                         /\ nodes_expanded' = nodes_expanded + 1
                         /\ frontier' = acc.frontier
                         /\ explored' = acc.explored
                         /\ max_search_depth' = acc.msd
                         /\ node' = n
                         /\ Observe(f1, t1[n].depth + 1)
                         /\ UNCHANGED <<pc, ret, max_depth>>
       ELSE ReturnEmpty(BareNone)
    /\ UNCHANGED <<func, start_state, result, genVars, mvVars, walkVars, uiVars>>

(***************************************************************************)
(* BFS                                                                     *)
(***************************************************************************)
RECURSIVE BFSNeighbors(_, _, _, _)
BFSNeighbors(t, nbrs, i, acc) ==
    IF i > Len(nbrs) THEN acc
    ELSE LET neighbor == nbrs[i]
         IN  IF t[neighbor].state \notin acc.explored
             THEN BFSNeighbors(t, nbrs, i + 1,
                    [frontier |-> Append(acc.frontier, neighbor),
                     explored |-> acc.explored \cup {t[neighbor].state},
                     msd |-> IF t[neighbor].depth > acc.msd
                             THEN t[neighbor].depth ELSE acc.msd])
             ELSE BFSNeighbors(t, nbrs, i + 1, acc)

BFS ==
    /\ pc = "search" /\ func = "BFS"
    /\ IF frontier # <<>>
       THEN LET n == popleft(frontier).item
                f1 == popleft(frontier).rest
                e1 == explored \cup {tree[n].state}
            IN  IF is_goal(tree[n])
                THEN ReturnGoal(n, f1, e1, nodes_expanded, max_search_depth)
                ELSE LET t1 == expand(tree, n)
                         acc == BFSNeighbors(t1, t1[n].nodes, 1,
                                  [frontier |-> f1, explored |-> e1,
                                   msd |-> max_search_depth])
                     IN  /\ tree' = t1
                         /\ nodes_expanded' = nodes_expanded + 1
                         /\ frontier' = acc.frontier
                         /\ explored' = acc.explored
                         /\ max_search_depth' = acc.msd
                         /\ node' = n
                         /\ Observe(f1, t1[n].depth + 1)
                         /\ UNCHANGED <<pc, ret, max_depth>>
       ELSE ReturnEmpty(BareNone)
    /\ UNCHANGED <<func, start_state, result, genVars, mvVars, walkVars, uiVars>>

(***************************************************************************)
(* DFS and limited_DFS.  The frontier holds (node, depth) pairs.  DFS      *)
(* calls limited_DFS on the same root with max_depth = 1, 2, 3, ...; each  *)
(* call starts with a fresh frontier, explored set and counter.            *)
(***************************************************************************)
\* `for neighbor in reversed(node.nodes)': i runs from the last child down
RECURSIVE DFSNeighbors(_, _, _, _, _, _)
DFSNeighbors(t, nbrs, i, depth, e, f) ==
    IF i < 1 THEN f
    ELSE IF t[nbrs[i]].state \notin e
         THEN DFSNeighbors(t, nbrs, i - 1, depth, e, Append(f, <<nbrs[i], depth + 1>>))
         ELSE DFSNeighbors(t, nbrs, i - 1, depth, e, f)

limited_DFS ==
    /\ pc = "search" /\ func = "DFS"
    /\ frontier # <<>>
    /\ LET n == pop(frontier).item[1]
           depth == pop(frontier).item[2]
           f1 == pop(frontier).rest
           e1 == explored \cup {tree[n].state}
       IN  IF is_goal(tree[n])
           THEN ReturnGoal(n, f1, e1, nodes_expanded, depth)
           ELSE IF depth < max_depth
           THEN LET t1 == expand(tree, n)
                IN  /\ tree' = t1
                    /\ nodes_expanded' = nodes_expanded + 1
                    /\ frontier' = DFSNeighbors(t1, t1[n].nodes, Len(t1[n].nodes),
                                                depth, e1, f1)
                    /\ explored' = e1
                    /\ node' = n
                    /\ Observe(f1, t1[n].depth + 1)
                    /\ UNCHANGED <<pc, ret, max_search_depth, max_depth>>
           ELSE /\ frontier' = f1
                /\ explored' = e1
                /\ node' = n
                /\ UNCHANGED <<pc, ret, tree, nodes_expanded, max_search_depth,
                               max_depth, expand_calls, inserted_depth>>
    /\ UNCHANGED <<func, start_state, result, genVars, mvVars, walkVars, uiVars>>

\* limited_DFS ran its frontier empty and returned None: DFS raises the
\* limit and calls it again, without end.  The code's limit grows without
\* bound; the model holds it at MaxLimit, where the call of limited_DFS is
\* then repeated with that limit.
DFS ==
    /\ pc = "search" /\ func = "DFS"
    /\ frontier = <<>>
    /\ max_depth' = IF max_depth < MaxLimit THEN max_depth + 1 ELSE MaxLimit
    /\ frontier' = <<<<1, 0>>>>
    /\ explored' = {}
    /\ nodes_expanded' = 0
    /\ expand_calls' = 0
    /\ inserted_depth' = tree[1].depth
    /\ UNCHANGED <<pc, tree, max_search_depth, node, ret>>
    /\ UNCHANGED <<func, start_state, result, genVars, mvVars, walkVars, uiVars>>

(***************************************************************************)
(* UCS                                                                     *)
(***************************************************************************)
RECURSIVE UCSChildren(_, _, _, _, _)
UCSChildren(t, nbrs, i, e, f) ==
    IF i > Len(nbrs) THEN f
    ELSE IF t[nbrs[i]].state \notin e
         THEN UCSChildren(t, nbrs, i + 1, e, heappush(t, "node", f, nbrs[i]))
         ELSE UCSChildren(t, nbrs, i + 1, e, f)

\* one evaluation of `while frontier:' and the body it guards
UCS_iteration ==
    IF frontier # <<>>
    THEN LET n == heappop(tree, "node", frontier).item
             f1 == heappop(tree, "node", frontier).rest
             e1 == explored \cup {tree[n].state}
         IN  IF is_goal(tree[n])
             THEN ReturnGoal(n, f1, e1, Cardinality(e1), tree[n].depth)
             ELSE LET t1 == expand(tree, n)
                  IN  /\ tree' = t1
                      /\ frontier' = UCSChildren(t1, t1[n].nodes, 1, e1, f1)
                      /\ explored' = e1
                      /\ node' = n
                      /\ Observe(f1, t1[n].depth + 1)
                      /\ UNCHANGED <<pc, ret, nodes_expanded, max_search_depth,
                                     max_depth>>
    ELSE ReturnEmpty(Tuple3(0, 0, 0))

UCS ==
    /\ pc = "search" /\ func = "UCS"
    /\ UCS_iteration
    /\ UNCHANGED <<func, start_state, result, genVars, mvVars, walkVars, uiVars>>

(***************************************************************************)
(* Hill_Climbing                                                           *)
(***************************************************************************)
\* a variant that puts the unexplored children on the heap last child first
RECURSIVE HillChildren_backwards(_, _, _, _, _)
HillChildren_backwards(t, nbrs, i, e, f) ==
    IF i > Len(nbrs) THEN f
    ELSE LET c == nbrs[Len(nbrs) + 1 - i]
         IN  IF t[c].state \notin e
             THEN HillChildren_backwards(t, nbrs, i + 1, e, heappush(t, "node", f, c))
             ELSE HillChildren_backwards(t, nbrs, i + 1, e, f)

RECURSIVE HillChildren(_, _, _, _, _)
HillChildren(t, nbrs, i, e, f) ==
    IF i > Len(nbrs) THEN f
    ELSE IF t[nbrs[i]].state \notin e
         THEN HillChildren(t, nbrs, i + 1, e, heappush(t, "node", f, nbrs[i]))
         ELSE HillChildren(t, nbrs, i + 1, e, f)

\* one evaluation of `while frontier:' and the body it guards
Hill_Climbing_iteration ==
    IF frontier # <<>>
    THEN LET n == heappop(tree, "node", frontier).item
             f1 == heappop(tree, "node", frontier).rest
             e1 == explored \cup {tree[n].state}
         IN  IF is_goal(tree[n])
             THEN ReturnGoal(n, f1, e1, Cardinality(e1), tree[n].depth)
             ELSE LET t1 == expand(tree, n)
                  IN  /\ tree' = t1
                      /\ frontier' = HillChildren(t1, t1[n].nodes, 1, e1, f1)
                      /\ explored' = e1
                      /\ node' = n
                      /\ Observe(f1, t1[n].depth + 1)
                      /\ UNCHANGED <<pc, ret, nodes_expanded, max_search_depth,
                                     max_depth>>
    ELSE ReturnEmpty(Tuple3(0, 0, 0))

Hill_Climbing ==
    /\ pc = "search" /\ func = "Hill_Climbing"
    /\ Hill_Climbing_iteration
    /\ UNCHANGED <<func, start_state, result, genVars, mvVars, walkVars, uiVars>>

(***************************************************************************)
(* Greedy: the children list of the expanded node is sorted in place by    *)
(* the blank's distance, then the unexplored children go on the heap,      *)
(* which orders them by BoardNode.__lt__.                                  *)
(***************************************************************************)
RECURSIVE GreedyChildren(_, _, _, _, _)
GreedyChildren(t, nbrs, i, e, f) ==
    IF i > Len(nbrs) THEN f
    ELSE IF t[nbrs[i]].state \notin e
         THEN GreedyChildren(t, nbrs, i + 1, e, heappush(t, "node", f, nbrs[i]))
         ELSE GreedyChildren(t, nbrs, i + 1, e, f)

Greedy ==
    /\ pc = "search" /\ func = "Greedy"
    /\ IF frontier # <<>>
       THEN LET n == heappop(tree, "node", frontier).item
                f1 == heappop(tree, "node", frontier).rest
                e1 == explored \cup {tree[n].state}
            IN  IF is_goal(tree[n])
                THEN ReturnGoal(n, f1, e1, Cardinality(e1), tree[n].depth)
                ELSE LET t1 == expand(tree, n)
                         t2 == [t1 EXCEPT ![n].nodes = sort(t1, "blank", t1[n].nodes)]
                     IN  /\ tree' = t2
                         /\ frontier' = GreedyChildren(t2, t2[n].nodes, 1, e1, f1)
                         /\ explored' = e1
                         /\ node' = n
                         /\ Observe(f1, t1[n].depth + 1)
                         /\ UNCHANGED <<pc, ret, nodes_expanded, max_search_depth,
                                        max_depth>>
       ELSE ReturnEmpty(Tuple3(0, 0, 0))
    /\ UNCHANGED <<func, start_state, result, genVars, mvVars, walkVars, uiVars>>

(***************************************************************************)
(* BEAM_SEARCH: the frontier holds (cost, node) pairs.                     *)
(***************************************************************************)
beam_width == 3

Min(a, b) == IF a < b THEN a ELSE b

\* a variant that takes every child as a successor, explored or not
RECURSIVE BeamSuccessors_all(_, _, _, _)
BeamSuccessors_all(t, nbrs, i, e) ==
    IF i > Len(nbrs) THEN <<>>
    ELSE <<nbrs[i]>> \o BeamSuccessors_all(t, nbrs, i + 1, e)

\* the children whose state is not explored, in the children's order
RECURSIVE BeamSuccessors(_, _, _, _)
BeamSuccessors(t, nbrs, i, e) ==
    IF i > Len(nbrs) THEN <<>>
    ELSE (IF t[nbrs[i]].state \notin e THEN <<nbrs[i]>> ELSE <<>>)
         \o BeamSuccessors(t, nbrs, i + 1, e)

\* a variant that takes the successors from the end of the sorted list
RECURSIVE BeamInsert_worst(_, _, _, _, _)
BeamInsert_worst(t, successors, i, stop, acc) ==
    IF i >= stop THEN acc
    ELSE LET child == successors[Len(successors) - i]
         IN  BeamInsert_worst(t, successors, i + 1, stop,
                [frontier |-> heappush(t, "pair", acc.frontier,
                                       <<cost(t[child]), child>>),
                 explored |-> acc.explored \cup {t[child].state},
                 msd |-> IF t[child].depth > acc.msd THEN t[child].depth ELSE acc.msd])

\* `for i in range(min(beam_width, len(successors)))'
RECURSIVE BeamInsert(_, _, _, _, _)
BeamInsert(t, successors, i, stop, acc) ==
    IF i >= stop THEN acc
    ELSE LET child == successors[i + 1]
         IN  BeamInsert(t, successors, i + 1, stop,
                [frontier |-> heappush(t, "pair", acc.frontier,
                                       <<cost(t[child]), child>>),
                 explored |-> acc.explored \cup {t[child].state},
                 msd |-> IF t[child].depth > acc.msd THEN t[child].depth ELSE acc.msd])

BEAM_SEARCH ==
    /\ pc = "search" /\ func = "BEAM_SEARCH"
    /\ IF frontier # <<>>
       THEN LET n == heappop(tree, "pair", frontier).item[2]
                f1 == heappop(tree, "pair", frontier).rest
                e1 == explored \cup {tree[n].state}
            IN  IF is_goal(tree[n])
                THEN ReturnGoal(n, f1, e1, nodes_expanded, max_search_depth)
                ELSE LET t1 == expand(tree, n)
                         successors == sort(t1, "lt",
                                            BeamSuccessors(t1, t1[n].nodes, 1, e1))
                         acc == BeamInsert(t1, successors, 0,
                                           Min(beam_width, Len(successors)),
                                           [frontier |-> f1, explored |-> e1,
                                            msd |-> max_search_depth])
                     IN  /\ tree' = t1
                         /\ nodes_expanded' = nodes_expanded + 1
                         /\ frontier' = acc.frontier
                         /\ explored' = acc.explored
                         /\ max_search_depth' = acc.msd
                         /\ node' = n
                         /\ Observe(f1, t1[n].depth + 1)
                         /\ UNCHANGED <<pc, ret, max_depth>>
       ELSE ReturnEmpty(BareNone)
    /\ UNCHANGED <<func, start_state, result, genVars, mvVars, walkVars, uiVars>>

(***************************************************************************)
(* Board.solve, second half: the strategy's value is unpacked into three   *)
(* names and the final node's actions are read.  A bare None cannot be     *)
(* unpacked (TypeError); None has no method actions (AttributeError).      *)
(* time_elapsed is wall-clock time and is left out.                        *)
(***************************************************************************)
solve_return ==
    /\ pc = "returned"
    /\ result' = IF ret.shape # "tuple"
                 THEN [NoResult EXCEPT !.raised = "TypeError"]
                 ELSE IF ret.node = 0
                 THEN [NoResult EXCEPT !.raised = "AttributeError"]
                 ELSE [raised |-> "none",
                       path_to_goal |-> actions(tree, ret.node),
                       nodes_expanded |-> ret.nodes_expanded,
                       max_search_depth |-> ret.max_search_depth]
    /\ pc' = "done"
    /\ UNCHANGED <<func, start_state, tree, frontier, explored, nodes_expanded,
                   max_search_depth, max_depth, node, ret, expand_calls,
                   inserted_depth, genVars, mvVars, walkVars, uiVars>>

InitOn(inputs) ==
    /\ pc = "call"
    /\ \E inp \in inputs : start_state = inp[1] /\ func = inp[2]
    /\ tree = <<>> /\ frontier = <<>> /\ explored = {}
    /\ nodes_expanded = 0 /\ max_search_depth = 0 /\ max_depth = 0 /\ node = 0
    /\ ret = NoRet /\ result = NoResult
    /\ expand_calls = 0 /\ inserted_depth = 0
    /\ GenIdle /\ MvIdle /\ WalkIdle /\ UIIdle

Init == InitOn(Inputs)

Next ==
    \/ solve_call
    \/ A_STAR
    \/ BFS
    \/ limited_DFS
    \/ DFS
    \/ UCS
    \/ Greedy
    \/ BEAM_SEARCH
    \/ Hill_Climbing
    \/ solve_return

Spec == Init /\ [][Next]_vars

(***************************************************************************)
(* Board.solve with DFS alone.  The interpreter keeps executing the call:  *)
(* a step that can be taken is taken.                                      *)
(***************************************************************************)
InitDFS == InitOn(DFSInputs)

NextDFS ==
    \/ solve_call
    \/ limited_DFS
    \/ DFS
    \/ solve_return

SpecDFS == InitDFS /\ [][NextDFS]_vars /\ WF_vars(NextDFS)

(***************************************************************************)
(* Board.create_solvable_state: state = [*range(9)], then shuffle in place *)
(* until is_solvable.  One action is one pass of `while True:'.            *)
(***************************************************************************)
\* what random.shuffle can leave in the list: here every rearrangement of
\* its first ShuffleLen cells
Shuffles(state) ==
    {[i \in 1..Len(state) |-> IF i <= ShuffleLen THEN state[p[i]] ELSE state[i]] :
        p \in Permutations(1..ShuffleLen)}

create_solvable_state ==
    /\ gen_pc = "loop"
    /\ \E shuffled \in Shuffles(gen_state) :
          /\ gen_state' = shuffled
          /\ gen_pc' = IF is_solvable(shuffled) THEN "returned" ELSE "loop"
    /\ UNCHANGED <<searchVars, mvVars, walkVars, uiVars>>

InitGen ==
    /\ gen_pc = "loop"
    /\ gen_state = <<0, 1, 2, 3, 4, 5, 6, 7, 8>>
    /\ SearchIdle /\ MvIdle /\ WalkIdle /\ UIIdle

NextGen == create_solvable_state

SpecGen == InitGen /\ [][NextGen]_vars

(***************************************************************************)
(* Board.transform called directly, with any of the four moves or an       *)
(* unknown action, on the states within MoveDepth moves of the goal.       *)
(***************************************************************************)
MoveActions == {"U", "D", "L", "R", "X"}

transform_call ==
    /\ mv_pc = "call"
    /\ mv_result' = transform(mv_state, mv_action)
    /\ mv_pc' = "done"
    /\ UNCHANGED <<mv_state, mv_action, searchVars, genVars, walkVars, uiVars>>

InitMove ==
    /\ mv_pc = "call"
    /\ mv_state \in Within(MoveDepth)
    /\ mv_action \in MoveActions
    /\ mv_result = [raised |-> "pending", state |-> <<>>]
    /\ SearchIdle /\ GenIdle /\ WalkIdle /\ UIIdle

NextMove == transform_call

SpecMove == InitMove /\ [][NextMove]_vars

(***************************************************************************)
(* Legal moves applied one after another: from a start state, any move     *)
(* that valid_actions yields is applied with transform, again and again.   *)
(* The walk is started from the goal and from a state with one pair of     *)
(* tiles exchanged, so that it meets every permutation of 0..8.            *)
(***************************************************************************)

legal_move ==
    /\ walk_state # <<>>
    /\ \E k \in 1..Len(valid_actions(walk_state)) :
          walk_state' = transform(walk_state, valid_actions(walk_state)[k]).state
    /\ UNCHANGED <<walk_from, searchVars, genVars, mvVars, uiVars>>

InitWalk ==
    /\ walk_from \in {goal, OddStart}
    /\ walk_state = walk_from
    /\ SearchIdle /\ GenIdle /\ MvIdle /\ UIIdle

NextWalk == legal_move

SpecWalk == InitWalk /\ [][NextWalk]_vars

(***************************************************************************)
(* The presentation layer (app.py): PuzzlePage's flags and boards, the UI  *)
(* thread, which runs one event handler at a time, and the solver threads  *)
(* solve_board starts.  All run under the interpreter lock, which can pass *)
(* from one thread to another between any two statements, so a step is one *)
(* statement's access to the attributes the threads share.  The moves      *)
(* counter and the widgets are read by no condition and are left out.      *)
(***************************************************************************)
Threads == 1..MaxThreads

\* what Board.create_solvable_state may have left in saved_board_state
UIStates == Within(UIScramble)

\* run_solution has been started on thread t and has not ended
Active(t) == thread_pc[t] \notin {"unstarted", "finished", "raised"}

\* the shortest sequences of legal moves from s to the goal
RECURSIVE ShortestPaths(_)
ShortestPaths(s) ==
    IF s = goal THEN {<<>>}
    ELSE UNION {{<<a>> \o p : p \in ShortestPaths(transform(s, a).state)} :
                  a \in {b \in ValidSet(s) :
                            Dist(transform(s, b).state) = Dist(s) - 1}}

\* the values of path_to_goal Board.solve can hand back for state s: a path
\* that solves s (the shortest ones are taken); none when the goal cannot be
\* reached from s, where Board.solve raises or does not return
SolvePaths(s) == IF s \in Within(RefDepth - 1) THEN ShortestPaths(s) ELSE {}

\* the UI thread moves from one statement to another
UIGoto(from, to) == ui_pc = from /\ ui_pc' = to

\* thread t moves from one statement of run_solution to another
Goto(t, from, to) ==
    /\ thread_pc[t] = from
    /\ thread_pc' = [thread_pc EXCEPT ![t] = to]

\* the 'solve' button: solve_board tests is_solving and, when it is unset,
\* goes on to reset_board
solve_board ==
    /\ \E t \in Threads : thread_pc[t] = "unstarted"
    /\ ~is_solving
    /\ UIGoto("idle", "stop_solution")
    /\ ui_handler' = "solve_board"
    /\ UNCHANGED <<pageVars, thread_pc, thread_path, new_state, cancelled>>
    /\ UNCHANGED <<searchVars, genVars, mvVars, walkVars>>

\* the 'shuffle' button: a new saved_board_state, then reset_board
shuffle_board ==
    /\ UIGoto("idle", "stop_solution")
    /\ saved_board_state' \in UIStates
    /\ ui_handler' = "shuffle_board"
    /\ UNCHANGED <<is_stopped, is_solving, is_done, current_board_state,
                   thread_pc, thread_path, new_state, cancelled>>
    /\ UNCHANGED <<searchVars, genVars, mvVars, walkVars>>

\* an algorithm button: set_algorithm goes on to reset_board
set_algorithm ==
    /\ UIGoto("idle", "stop_solution")
    /\ ui_handler' = "set_algorithm"
    /\ UNCHANGED <<pageVars, thread_pc, thread_path, new_state, cancelled>>
    /\ UNCHANGED <<searchVars, genVars, mvVars, walkVars>>

\* reset_board -> stop_solution: `if self.is_solving', first operand
stop_solution_is_solving ==
    /\ ui_pc = "stop_solution"
    /\ ui_pc' = IF is_solving THEN "stop_solution_and" ELSE "stop_solution_done"
    /\ UNCHANGED <<pageVars, ui_handler, thread_pc, thread_path, new_state, cancelled>>
    /\ UNCHANGED <<searchVars, genVars, mvVars, walkVars>>

\* stop_solution: `and not self.is_stopped', second operand
stop_solution_is_stopped ==
    /\ ui_pc = "stop_solution_and"
    /\ ui_pc' = IF ~is_stopped THEN "stop_solution_set" ELSE "stop_solution_done"
    /\ UNCHANGED <<pageVars, ui_handler, thread_pc, thread_path, new_state, cancelled>>
    /\ UNCHANGED <<searchVars, genVars, mvVars, walkVars>>

\* stop_solution: self.is_stopped = True
stop_solution_set ==
    /\ UIGoto("stop_solution_set", "stop_solution_done")
    /\ is_stopped' = TRUE
    /\ UNCHANGED <<is_solving, is_done, current_board_state, saved_board_state,
                   ui_handler, thread_pc, thread_path, new_state, cancelled>>
    /\ UNCHANGED <<searchVars, genVars, mvVars, walkVars>>

\* stop_solution: self.is_done = False
stop_solution_done ==
    /\ UIGoto("stop_solution_done", "populate_board")
    /\ is_done' = FALSE
    /\ UNCHANGED <<is_stopped, is_solving, current_board_state, saved_board_state,
                   ui_handler, thread_pc, thread_path, new_state, cancelled>>
    /\ UNCHANGED <<searchVars, genVars, mvVars, walkVars>>

\* reset_board -> populate_board(saved_board_state): the board is set and
\* reset_board is complete; solve_board goes on to start a thread
populate_board ==
    /\ ui_pc = "populate_board"
    /\ current_board_state' = saved_board_state
    /\ cancelled' = [t \in Threads |-> cancelled[t] \/ Active(t)]
    /\ ui_pc' = IF ui_handler = "solve_board" THEN "Thread_start" ELSE "idle"
    /\ UNCHANGED <<is_stopped, is_solving, is_done, saved_board_state,
                   ui_handler, thread_pc, thread_path, new_state>>
    /\ UNCHANGED <<searchVars, genVars, mvVars, walkVars>>

\* solve_board: Thread(target=self.run_solution).start()
Thread_start ==
    /\ UIGoto("Thread_start", "idle")
    /\ LET t == CHOOSE u \in Threads :
                    /\ thread_pc[u] = "unstarted"
                    /\ \A v \in Threads : thread_pc[v] = "unstarted" => u <= v
       IN  thread_pc' = [thread_pc EXCEPT ![t] = "is_stopped"]
    /\ UNCHANGED <<pageVars, ui_handler, thread_path, new_state, cancelled>>
    /\ UNCHANGED <<searchVars, genVars, mvVars, walkVars>>

\* run_solution: self.is_stopped = False
run_solution_is_stopped(t) ==
    /\ Goto(t, "is_stopped", "is_solving")
    /\ is_stopped' = FALSE
    /\ UNCHANGED <<is_solving, is_done, current_board_state, saved_board_state,
                   ui_pc, ui_handler, thread_path, new_state, cancelled>>
    /\ UNCHANGED <<searchVars, genVars, mvVars, walkVars>>

\* run_solution: self.is_solving = True
run_solution_is_solving(t) ==
    /\ Goto(t, "is_solving", "is_done")
    /\ is_solving' = TRUE
    /\ UNCHANGED <<is_stopped, is_done, current_board_state, saved_board_state,
                   ui_pc, ui_handler, thread_path, new_state, cancelled>>
    /\ UNCHANGED <<searchVars, genVars, mvVars, walkVars>>

\* run_solution: self.is_done = False
run_solution_is_done(t) ==
    /\ Goto(t, "is_done", "solve")
    /\ is_done' = FALSE
    /\ UNCHANGED <<is_stopped, is_solving, current_board_state, saved_board_state,
                   ui_pc, ui_handler, thread_path, new_state, cancelled>>
    /\ UNCHANGED <<searchVars, genVars, mvVars, walkVars>>

\* run_solution: Board.solve(self.current_board_state, ...), then
\* `if path_to_goal:'
run_solution_solve(t) ==
    /\ thread_pc[t] = "solve"
    /\ IF SolvePaths(current_board_state) = {}
       THEN /\ thread_pc' = [thread_pc EXCEPT ![t] = "raised"]
            /\ UNCHANGED thread_path
       ELSE \E path \in SolvePaths(current_board_state) :
               /\ thread_path' = [thread_path EXCEPT ![t] = path]
               /\ thread_pc' = [thread_pc EXCEPT ![t] =
                                  IF path # <<>> THEN "for" ELSE "no_path"]
    /\ UNCHANGED <<pageVars, ui_pc, ui_handler, new_state, cancelled>>
    /\ UNCHANGED <<searchVars, genVars, mvVars, walkVars>>

\* run_solution: `for action in path_to_goal: if self.is_stopped: ... break',
\* and the loop's else branch when the path is used up
run_solution_for(t) ==
    /\ thread_pc[t] = "for"
    /\ thread_pc' = [thread_pc EXCEPT ![t] =
                       IF thread_path[t] = <<>> THEN "for_else"
                       ELSE IF is_stopped THEN "end"
                       ELSE "transform_state"]
    /\ UNCHANGED <<pageVars, ui_pc, ui_handler, thread_path, new_state, cancelled>>
    /\ UNCHANGED <<searchVars, genVars, mvVars, walkVars>>

\* transform_state: new_state = Board.transform(self.current_board_state,
\* action); an IndexError ends the thread
transform_state_new_state(t) ==
    /\ thread_pc[t] = "transform_state"
    /\ LET r == transform(current_board_state, Head(thread_path[t]))
       IN  IF r.raised = "none"
           THEN /\ new_state' = [new_state EXCEPT ![t] = r.state]
                /\ thread_pc' = [thread_pc EXCEPT ![t] = "transform_state_set"]
           ELSE /\ thread_pc' = [thread_pc EXCEPT ![t] = "raised"]
                /\ UNCHANGED new_state
    /\ UNCHANGED <<pageVars, ui_pc, ui_handler, thread_path, cancelled>>
    /\ UNCHANGED <<searchVars, genVars, mvVars, walkVars>>

\* transform_state: self.current_board_state = new_state; back to the loop
transform_state_set(t) ==
    /\ Goto(t, "transform_state_set", "for")
    /\ current_board_state' = new_state[t]
    /\ thread_path' = [thread_path EXCEPT ![t] = Tail(thread_path[t])]
    /\ UNCHANGED <<is_stopped, is_solving, is_done, saved_board_state,
                   ui_pc, ui_handler, new_state, cancelled>>
    /\ UNCHANGED <<searchVars, genVars, mvVars, walkVars>>

\* run_solution, the loop's else branch: self.is_done = True
run_solution_for_else(t) ==
    /\ Goto(t, "for_else", "end")
    /\ is_done' = TRUE
    /\ UNCHANGED <<is_stopped, is_solving, current_board_state, saved_board_state,
                   ui_pc, ui_handler, thread_path, new_state, cancelled>>
    /\ UNCHANGED <<searchVars, genVars, mvVars, walkVars>>

\* run_solution: self.is_solving = False after the loop; the thread ends
run_solution_end(t) ==
    /\ Goto(t, "end", "finished")
    /\ is_solving' = FALSE
    /\ UNCHANGED <<is_stopped, is_done, current_board_state, saved_board_state,
                   ui_pc, ui_handler, thread_path, new_state, cancelled>>
    /\ UNCHANGED <<searchVars, genVars, mvVars, walkVars>>

\* run_solution: self.is_solving = False when the path is empty; the thread ends
run_solution_no_path(t) ==
    /\ Goto(t, "no_path", "finished")
    /\ is_solving' = FALSE
    /\ UNCHANGED <<is_stopped, is_done, current_board_state, saved_board_state,
                   ui_pc, ui_handler, thread_path, new_state, cancelled>>
    /\ UNCHANGED <<searchVars, genVars, mvVars, walkVars>>

\* PuzzlePage.__init__ has run: the flags are unset, display_widgets has
\* shuffled the board, no thread has been started
InitUI ==
    /\ is_stopped = FALSE /\ is_solving = FALSE /\ is_done = FALSE
    /\ saved_board_state \in UIStates
    /\ current_board_state = saved_board_state
    /\ ui_pc = "idle" /\ ui_handler = "none"
    /\ thread_pc = [t \in Threads |-> "unstarted"]
    /\ thread_path = [t \in Threads |-> <<>>]
    /\ new_state = [t \in Threads |-> <<>>]
    /\ cancelled = [t \in Threads |-> FALSE]
    /\ SearchIdle /\ GenIdle /\ MvIdle /\ WalkIdle

NextUI ==
    \/ solve_board
    \/ shuffle_board
    \/ set_algorithm
    \/ stop_solution_is_solving
    \/ stop_solution_is_stopped
    \/ stop_solution_set
    \/ stop_solution_done
    \/ populate_board
    \/ Thread_start
    \/ \E t \in Threads : run_solution_is_stopped(t)
    \/ \E t \in Threads : run_solution_is_solving(t)
    \/ \E t \in Threads : run_solution_is_done(t)
    \/ \E t \in Threads : run_solution_solve(t)
    \/ \E t \in Threads : run_solution_for(t)
    \/ \E t \in Threads : transform_state_new_state(t)
    \/ \E t \in Threads : transform_state_set(t)
    \/ \E t \in Threads : run_solution_for_else(t)
    \/ \E t \in Threads : run_solution_end(t)
    \/ \E t \in Threads : run_solution_no_path(t)

SpecUI == InitUI /\ [][NextUI]_vars

(***************************************************************************)
(* Properties.                                                             *)
(***************************************************************************)
\* the state reached by applying the moves of path in order with transform,
\* or <<>> when a move is not among valid_actions of the state it meets
RECURSIVE Replay(_, _)
Replay(s, path) ==
    IF path = <<>> THEN s
    ELSE IF Head(path) \in ValidSet(s)
         THEN Replay(transform(s, Head(path)).state, Tail(path))
         ELSE <<>>

Returned == pc = "done" /\ result.raised = "none"

\* the strategy came back without a terminal node
NoPath == pc \in {"returned", "done"} /\ ret.node = 0

\* C1: for every strategy and every solvable start state, Board.solve
\* returns a move sequence whose moves, applied in order from the start
\* state, are each legal where applied and end in the goal state.
C1_PathValid ==
    (pc = "done" /\ Solvable(start_state))
        => /\ result.raised = "none"
           /\ Replay(start_state, result.path_to_goal) = goal

C1_Witness ==
    /\ Returned /\ Solvable(start_state)
    /\ Len(result.path_to_goal) >= 4
    /\ Replay(start_state, result.path_to_goal) = goal

\* C2: when the strategy finds no path, Board.solve does not raise and
\* returns a result whose move path is empty.
C2_NoPathIsAResult ==
    (pc = "done" /\ NoPath)
        => /\ result.raised = "none"
           /\ result.path_to_goal = <<>>

\* C3: a strategy whose frontier ran empty returns a 3-tuple (absent node,
\* nodesExpanded, maxSearchDepth), never a bare absent value.
C3_NoPathIsATuple == NoPath => ret.shape = "tuple"

\* C4: for every solvable start state the path A_STAR returns is as long
\* as the true shortest-path distance from the start state to the goal.
C4_AStarShortest ==
    (pc = "done" /\ func = "A_STAR" /\ Solvable(start_state))
        => /\ result.raised = "none"
           /\ Len(result.path_to_goal) = Dist(start_state)

\* C5: for every solvable start state the path UCS returns is as long as
\* the true shortest-path distance from the start state to the goal.
C5_UCSShortest ==
    (pc = "done" /\ func = "UCS" /\ Solvable(start_state))
        => /\ result.raised = "none"
           /\ Len(result.path_to_goal) = Dist(start_state)

BFSShortest ==
    (pc = "done" /\ func = "BFS" /\ Solvable(start_state))
        => /\ result.raised = "none"
           /\ Len(result.path_to_goal) = Dist(start_state)

\* a step of BFS that dequeues a node dequeues one at least as deep as the
\* node dequeued before it
BFSDepthOrder ==
    (func = "BFS" /\ Solvable(start_state) /\ node # 0 /\ node' # node)
        => tree'[node'].depth >= tree[node].depth

\* C6: for every solvable start state the path BFS returns is as long as
\* the true shortest-path distance, and BFS dequeues nodes in
\* non-decreasing depth order.
C6_BFSShortestInDepthOrder == [](BFSShortest) /\ [][BFSDepthOrder]_vars

C6_Witness ==
    /\ Returned /\ func = "BFS" /\ Solvable(start_state)
    /\ Len(result.path_to_goal) >= 4
    /\ Len(result.path_to_goal) = Dist(start_state)
    /\ tree[node].depth > 0

\* C7: for every solvable state the heuristic value the search uses (the
\* cost of a depth-0 node for the state) is at most the true shortest-path
\* distance from the state to the goal.
C7_HeuristicAdmissible ==
    (pc # "call" /\ Solvable(start_state))
        => cost(tree[1]) <= Dist(start_state)

\* C8: transform fails, producing no new state, whenever the action is not
\* among valid_actions of the state.
C8_IllegalMoveFails ==
    (mv_pc = "done" /\ mv_action \notin ValidSet(mv_state))
        => mv_result.raised # "none"

\* C9: when the start state is the goal, every strategy returns an empty
\* move path and reports nodesExpanded = 0.
C9_GoalStart ==
    (pc = "done" /\ start_state = goal)
        => /\ result.raised = "none"
           /\ result.path_to_goal = <<>>
           /\ result.nodes_expanded = 0

\* C10: every value create_solvable_state returns is a permutation of 0..8
\* with an even number of inversions among its non-blank tiles.
C10_GeneratedSolvable == gen_pc = "returned" => Solvable(gen_state)

C10_Witness ==
    /\ gen_pc = "returned"
    /\ gen_state # goal
    /\ Cardinality(InversionPairs(gen_state)) >= 2

\* the states one legal move away from a state of the set
MoveImage(S) ==
    {transform(q[1], q[2]).state :
        q \in {r \in S \X {"U", "D", "L", "R"} : r[2] \in ValidSet(r[1])}}

\* how many states legal moves reach from a state, counted layer by layer:
\* a move from a state of one layer leads into the layer before or the
\* layer after, so the next layer is the image of the last without the
\* layer before it.  n counts the layers up to and including `last'.
RECURSIVE CountLayers(_, _, _)
CountLayers(n, last, prev) ==
    LET nxt == MoveImage(last) \ prev
    IN  IF nxt = {} THEN n ELSE CountLayers(n + Cardinality(nxt), nxt, last)

ReachCount(s0) == CountLayers(1, {s0}, {})

\* how many of the permutations of 0..n-1 is_solvable accepts
SolvableCount(n) ==
    Cardinality({p \in Permutations(1..n) : is_solvable([i \in 1..n |-> p[i] - 1])})

\* is_solvable tells the states of the goal's walk from the states of the
\* other walk: whatever legal moves are made, from either start, the parity
\* of the inversion count stays what it was at the start
SolvableIffFromGoal == is_solvable(walk_state) <=> (walk_from = goal)

\* the walk from the goal meets as many states as there are permutations
\* that is_solvable accepts; all it meets are such permutations, so it
\* meets every one of them (evaluated once, at the start of that walk)
RECURSIVE Factorial(_)
Factorial(n) == IF n = 0 THEN 1 ELSE n * Factorial(n - 1)

\* the legal moves reach from the goal as many states as is_solvable accepts
\* and from OddStart as many as it rejects (counted once, at the walk's
\* first state); with SolvableIffFromGoal the two classes are exactly the
\* accepted and the rejected permutations
EverySolvableFromGoal ==
    (walk_from = goal /\ walk_state = goal) =>
        LET accepted == SolvableCount(Len(goal))
        IN  /\ ReachCount(goal) = accepted
            /\ ReachCount(OddStart) = Factorial(Len(goal)) - accepted

\* C11: inversion parity is invariant under every legal move, and
\* is_solvable holds exactly for the states legal moves reach from the
\* goal: every even permutation is reached, no odd permutation is.
C11_ParityIsReachability == SolvableIffFromGoal /\ EverySolvableFromGoal

C11_Witness ==
    /\ walk_from = goal
    /\ walk_state = <<8, 7, 6, 5, 4, 3, 2, 1, 0>>
    /\ is_solvable(walk_state)

opposite(m) ==
    CASE m = "U" -> "D"
      [] m = "D" -> "U"
      [] m = "L" -> "R"
      [] m = "R" -> "L"

\* C12: for every permutation state s and every move m of valid_actions(s),
\* the opposite move is among valid_actions(transform(s, m)) and applying
\* it gives s back.
C12_MoveReversible ==
    walk_state # <<>> =>
        \A k \in 1..Len(valid_actions(walk_state)) :
            LET m == valid_actions(walk_state)[k]
                t == transform(walk_state, m)
            IN  /\ t.raised = "none"
                /\ opposite(m) \in ValidSet(t.state)
                /\ transform(t.state, opposite(m)).raised = "none"
                /\ transform(t.state, opposite(m)).state = walk_state

C12_Witness ==
    /\ walk_from = OddStart
    /\ walk_state # walk_from
    /\ walk_state[5] = 0
    /\ Len(valid_actions(walk_state)) = 4

\* the cell (0-based) that holds the blank, and the kinds of cells
BlankCell(s) == CHOOSE c \in 0..8 : s[c + 1] = 0
Corners == {0, 2, 6, 8}
Edges == {1, 3, 5, 7}

\* two cells (0-based) that are orthogonal neighbours on the 3x3 grid
GridAdjacent(a, b) ==
    \/ (a \div 3 = b \div 3 /\ Abs(a - b) = 1)
    \/ (a % 3 = b % 3 /\ Abs(a - b) = 3)

\* child is s with the blank exchanged with one orthogonal neighbour: the
\* two tuples differ in exactly two cells, these are adjacent, and their
\* contents are swapped
SingleSwap(s, child) ==
    LET diff == {c \in 0..8 : s[c + 1] # child[c + 1]}
    IN  /\ Cardinality(diff) = 2
        /\ BlankCell(s) \in diff
        /\ \A a \in diff : \A b \in diff \ {a} :
              /\ GridAdjacent(a, b)
              /\ child[a + 1] = s[b + 1]

\* C13: valid_actions yields exactly 2 moves with the blank on a corner,
\* 3 on an edge and 4 at the centre, and each child state differs from
\* the state in exactly two grid-adjacent positions (a single swap of the
\* blank with an orthogonal neighbour).
C13_MovesAndChildren ==
    walk_state # <<>> =>
        /\ Len(valid_actions(walk_state)) =
              (IF BlankCell(walk_state) \in Corners THEN 2
               ELSE IF BlankCell(walk_state) \in Edges THEN 3 ELSE 4)
        /\ Cardinality(ValidSet(walk_state)) = Len(valid_actions(walk_state))
        /\ \A k \in 1..Len(valid_actions(walk_state)) :
              LET t == transform(walk_state, valid_actions(walk_state)[k])
              IN  t.raised = "none" /\ SingleSwap(walk_state, t.state)

C13_Witness ==
    /\ walk_from = goal
    /\ walk_state # walk_from
    /\ BlankCell(walk_state) = 7
    /\ Len(valid_actions(walk_state)) = 3

\* the strategy has returned a node (the goal node it dequeued)
FoundGoal == pc \in {"returned", "done"} /\ ret.shape = "tuple" /\ ret.node # 0

\* C14: for every strategy and every solvable start state, the
\* nodesExpanded value returned equals the number of calls of expand made
\* during the run; the goal node that ends the search is not expanded and
\* not counted.
C14_NodesExpandedCountsExpand ==
    (FoundGoal /\ Solvable(start_state)) => ret.nodes_expanded = expand_calls

\* C15: for every strategy and every solvable start state, the
\* maxSearchDepth value returned equals the greatest depth of a node ever
\* inserted into the frontier during the run.
C15_MaxDepthOverInserted ==
    (FoundGoal /\ Solvable(start_state)) => ret.max_search_depth = inserted_depth

\* C16: for every solvable start state, DFS returns, at the first limit at
\* which limited_DFS succeeds, a path whose length is the shortest-path
\* distance from the start to the goal.
C16_DFSShortest ==
    (FoundGoal /\ func = "DFS" /\ Solvable(start_state))
        => Len(actions(tree, ret.node)) = Dist(start_state)

\* C17: DFS terminates on every start state: for every permutation of
\* 0..8, solvable or not, the loop over increasing limits eventually returns.
C17_DFSTerminates ==
    (pc = "call" /\ func = "DFS" /\ IsPermutation(start_state))
        ~> (pc \in {"returned", "done"})

\* a step of UCS is the step Hill_Climbing's code takes from the same
\* frontier, explored set and tree, and the other way round: the same pop,
\* the same pushes in the same order, the same value returned
SameIteration ==
    (pc = "search" /\ func \in {"UCS", "Hill_Climbing"})
        => (UCS_iteration <=> Hill_Climbing_iteration)

\* C18: Hill_Climbing and UCS are operationally identical: from the same
\* root they perform the same sequence of frontier pops and pushes and
\* return the same node, nodesExpanded and maxSearchDepth.  Both start from
\* the same frontier (solve_call) and each iteration of one is the
\* iteration of the other, so the two runs coincide step by step.
C18_HillClimbingIsUCS == [][SameIteration]_vars

C18_Witness ==
    /\ func = "Hill_Climbing"
    /\ start_state = <<3, 1, 5, 6, 2, 7, 0, 8, 4>>
    /\ Returned
    /\ Len(result.path_to_goal) > 0
    /\ result.nodes_expanded > 1

\* the node UCS pops is no deeper than any node left on the frontier, and
\* no shallower than the node popped before it
UCSPopsShallowest ==
    (pc = "search" /\ func = "UCS" /\ frontier # <<>>) =>
        /\ \A i \in 1..Len(frontier) : tree[frontier[i]].depth >= tree[node'].depth
        /\ node # 0 => tree[node].depth <= tree[node'].depth

\* C19: UCS orders its frontier by depth alone: whenever it pops a node, no
\* node of strictly smaller depth is in the frontier, so nodes are dequeued
\* in non-decreasing depth order.
C19_UCSDepthOrder == [][UCSPopsShallowest]_vars

\* the whole-board Manhattan estimate of a node: cost() without its depth term
heuristic(n) == cost(n) - n.depth

\* the node Greedy pops has the least estimate on the frontier
GreedyPopsBest ==
    (pc = "search" /\ func = "Greedy" /\ frontier # <<>>) =>
        \A i \in 1..Len(frontier) :
            heuristic(tree[frontier[i]]) >= heuristic(tree[node'])

\* C20: Greedy orders its frontier by the whole-board heuristic estimate
\* alone, with no depth term: whenever it pops a node, no frontier node has
\* a strictly smaller Manhattan heuristic value, whatever the depths.
C20_GreedyHeuristicOrder == [][GreedyPopsBest]_vars

\* the children list of node n, as a set
Children(t, n) == {t[n].nodes[k] : k \in 1..Len(t[n].nodes)}

\* node n of tree t is consistent with its ancestors and with its children
NodeWellFormed(t, n) ==
    /\ t[n].depth = Len(iterate_ancestors(t, n)) - 1
    /\ (t[n].parent = 0) = (n = 1)
    /\ \A c \in Children(t, n) :
          /\ t[c].parent = n
          /\ t[c].depth = t[n].depth + 1
          /\ t[c].action \in ValidSet(t[n].state)
          /\ transform(t[n].state, t[c].action).raised = "none"
          /\ t[c].state = transform(t[n].state, t[c].action).state

\* C21: in every reachable state of any search run, every node's depth is
\* the number of its ancestors (0 for the root), and every child c of a
\* node has that node as parent, depth one more, a legal action and the
\* state transform gives for that action.
C21_TreeWellFormed == \A n \in 1..Len(tree) : NodeWellFormed(tree, n)

C21_Witness ==
    /\ pc = "search"
    /\ func = "Greedy"
    /\ \E n \in 1..Len(tree) : tree[n].depth >= 3 /\ Len(tree[n].nodes) = 4

\* a step leaves every node object as it was, apart from its children list,
\* and leaves the children of every node that has some exactly the same
\* nodes (Greedy reorders the list in place)
ChildrenKept ==
    /\ Len(tree') >= Len(tree)
    /\ \A n \in 1..Len(tree) :
          /\ [tree'[n] EXCEPT !.nodes = <<>>] = [tree[n] EXCEPT !.nodes = <<>>]
          /\ tree[n].nodes # <<>> =>
                /\ Len(tree'[n].nodes) = Len(tree[n].nodes)
                /\ Children(tree', n) = Children(tree, n)

\* a node that has children has one per legal move of its state
OnePerMove ==
    \A n \in 1..Len(tree) :
        tree[n].nodes # <<>> =>
            /\ Len(tree[n].nodes) = Len(valid_actions(tree[n].state))
            /\ {tree[c].action : c \in Children(tree, n)} = ValidSet(tree[n].state)

\* a further call of expand on the node dequeued last changes nothing
ExpandAgain == node # 0 => expand(expand(tree, node), node) = expand(tree, node)

\* C22: expand is idempotent: after any number of expand calls on a node,
\* the repeated calls of DFS across depth limits included, its children are
\* exactly the nodes the first call created, one per legal move, none added
\* or recreated.
C22_ExpandIdempotent == [](OnePerMove /\ ExpandAgain) /\ [][ChildrenKept]_vars

\* limited_DFS has just called expand on the root a second time or more
C22_Witness ==
    /\ func = "DFS"
    /\ max_depth >= 2
    /\ node = 1
    /\ expand_calls = 1
    /\ Len(tree) > 1 + Len(tree[1].nodes)

\* the entries of a frontier, as a set
Entries(f) == {f[i] : i \in 1..Len(f)}

\* no two entries of the frontier of A_STAR or BFS hold the same state
FrontierStatesDistinct ==
    (pc = "search" /\ func \in {"A_STAR", "BFS"}) =>
        \A i \in 1..Len(frontier) : \A j \in 1..Len(frontier) :
            i # j => tree[frontier[i]].state # tree[frontier[j]].state

\* a node A_STAR or BFS puts on the frontier holds a state that was neither
\* dequeued nor inserted before: explored has every state dequeued so far
\* and every state inserted after the root, and the node dequeued by this
\* step is the root or was inserted before
InsertedOnce ==
    (pc = "search" /\ func \in {"A_STAR", "BFS"}) =>
        \A m \in Entries(frontier') \ Entries(frontier) :
            /\ tree'[m].state \notin explored
            /\ tree'[m].state # tree'[node'].state
            /\ tree'[m].state # start_state

\* C23: in A_STAR and in BFS every state is inserted into the frontier at
\* most once per run: no two frontier entries hold the same state and no
\* state already dequeued is inserted again.
C23_InsertedAtMostOnce == [](FrontierStatesDistinct) /\ [][InsertedOnce]_vars

C23_Witness ==
    /\ pc = "search"
    /\ func = "A_STAR"
    /\ Len(frontier) >= 4
    /\ nodes_expanded >= 3
    /\ \E n \in 1..Len(tree) : tree[n].nodes # <<>> /\ Entries(frontier) \cap Children(tree, n) = {}

\* BEAM_SEARCH is about to dequeue a node and expand it
BeamExpands ==
    /\ pc = "search" /\ func = "BEAM_SEARCH" /\ frontier # <<>>
    /\ pc' = "search"

\* at the expansion this step makes: the children of the expanded node
\* whose state was not explored when the loop over them began, those the
\* step put on the frontier, and those it left out
BeamUnexplored ==
    {c \in Children(tree', node') :
        tree'[c].state \notin explored \cup {tree'[node'].state}}
BeamInserted == {e[2] : e \in Entries(frontier') \ Entries(frontier)}
BeamDiscarded == BeamUnexplored \ BeamInserted

BeamKeepsBest ==
    BeamExpands =>
        /\ BeamInserted \subseteq BeamUnexplored
        /\ Cardinality(BeamInserted) <= beam_width
        /\ Cardinality(BeamInserted) = Cardinality(Entries(frontier') \ Entries(frontier))
        /\ \A c \in BeamInserted : \A d \in BeamDiscarded :
              cost(tree'[c]) <= cost(tree'[d])

\* C24: in BEAM_SEARCH with beam_width = 3 each expansion inserts at most 3
\* of the node's not-yet-explored successors, and every inserted successor
\* has cost (heuristic + depth) at most the cost of every successor
\* discarded at that expansion.
C24_BeamKeepsBest == [][BeamKeepsBest]_vars

\* the root had four unexplored successors and three are on the frontier
C24_Witness ==
    /\ pc = "search" /\ func = "BEAM_SEARCH"
    /\ node = 1
    /\ Len(tree[1].nodes) = 4
    /\ Len(frontier) = beam_width
    /\ \E d \in Children(tree, 1) : tree[d].state \notin explored

\* the beam leaves a successor out only when the root is expanded with the
\* blank at the centre cell; at every other expansion the parent's state is
\* explored, at most beam_width successors are unexplored and all of them
\* are inserted
BeamPrunesAtCentreRootOnly ==
    BeamExpands =>
        /\ BeamDiscarded # {} => (node' = 1 /\ index(start_state, 0) = 4)
        /\ node' # 1 =>
              /\ tree[tree[node'].parent].state \in explored
              /\ Cardinality(BeamUnexplored) <= beam_width
              /\ BeamInserted = BeamUnexplored

\* BEAM_SEARCH does not run its frontier empty from a solvable start state
BeamFindsGoal ==
    (func = "BEAM_SEARCH" /\ Solvable(start_state) /\ pc \in {"returned", "done"})
        => (ret.node # 0 /\ is_goal(tree[ret.node]))

\* C25: in BEAM_SEARCH with the default beam_width = 3 a successor is
\* discarded only when the root is expanded with the blank at the centre
\* cell; at every other expansion the parent's state is already explored,
\* at most 3 unexplored successors exist and none is pruned, so the beam
\* never cuts off the goal for a solvable start state.
C25_BeamPrunesOnlyAtCentreRoot == [](BeamFindsGoal) /\ [][BeamPrunesAtCentreRootOnly]_vars

\* a run whose root had four successors, one of them left out, and that
\* returned the goal
C25_Witness ==
    /\ func = "BEAM_SEARCH"
    /\ Returned
    /\ index(start_state, 0) = 4
    /\ Len(tree[1].nodes) = 4
    /\ Len(result.path_to_goal) >= 4

\* C26: at most one solver thread is active at any time: solve_board never
\* starts a new solver thread while one started before has not finished.
C26_OneSolverThread == Cardinality({t \in Threads : Active(t)}) <= 1

\* a thread that was active when reset_board completed does not set the
\* board again
NoMoveAfterReset ==
    \A t \in Threads :
        (cancelled[t] /\ thread_pc[t] = "transform_state_set")
            => thread_pc'[t] = "transform_state_set"

\* when such a thread ends (with no handler under way on the UI thread) the
\* board is the saved board and is_solving is unset
EndsOnSavedBoard ==
    \A t \in Threads :
        (cancelled[t] /\ Active(t) /\ thread_pc'[t] = "finished" /\ ui_pc' = "idle")
            => (current_board_state' = saved_board_state' /\ ~is_solving')

\* C27: cancellation of a replay is effective: once reset_board (or
\* shuffle_board / set_algorithm) has completed while run_solution is
\* active, the solver thread applies no further replay move, so that when
\* it finishes current_board_state equals saved_board_state and is_solving
\* is false, under every interleaving.
C27_CancellationEffective == [][NoMoveAfterReset /\ EndsOnSavedBoard]_vars

====
